---- MODULE Spec2Model ----
(***************************************************************************)
(* A model of the order extraction pipeline of src/app.py:                 *)
(*   - the two AI recognizers and their retry loops                        *)
(*     (get_order_data_from_text, get_order_data_from_image),              *)
(*   - the hybrid dispatch get_order_data (OCR, AI-text, AI-vision),       *)
(*   - the rule based validation validate_and_fix_order_data with          *)
(*     safe_int, normalize_item_name and validate_store_name,              *)
(*   - the item summaries and the Streamlit session of the image tab.      *)
(* Texts are sequences of tokens or characters, so that split, strip,      *)
(* substring tests and digit stripping are computed and not assumed.       *)
(***************************************************************************)
EXTENDS Integers, Sequences, FiniteSets, TLC

VARIABLES
    \* ---- recognition (get_order_data and the two recognizers) ----
    max_retries,    \* the max_retries argument
    use_ocr,        \* the use_ocr argument
    ocr,            \* what the OCR engine makes of the image
    stub,           \* the external model: per recognizer, failures first, then a response
    pc,             \* position in get_order_data
    attempt,        \* the loop variable of the running retry loop
    calls,          \* per recognizer: requests sent to the external model
    rstate,         \* per recognizer: idle, running, returned, raised
    rresult,        \* per recognizer: the value returned
    last_error,     \* per recognizer: the last failure shown by st.warning / st.error
    result,         \* the value get_order_data returns
    \* ---- reconciliation (validate_and_fix_order_data) ----
    order_data,     \* the order_data argument
    auto_learn,     \* the auto_learn argument
    items,          \* the alias table load_items() returns, in dict order
    stores,         \* the known store list load_stores() returns
    vpc,            \* position in validate_and_fix_order_data
    idx,            \* the loop index i (1-based)
    validated_data, \* the list being built and returned
    errors,         \* the errors list
    pass,           \* 1: first validation, 2: the final validation before the PDF
    first,          \* what the first validation returned and left behind
    \* ---- what outlives one call: files and the Streamlit session ----
    pending_review, \* the files held for manual review, by content fingerprint
    uploaded_file,  \* the file in the uploader of the image tab
    image_uploaded, \* st.session_state.image_uploaded
    ss_order_data,  \* st.session_state.order_data
    ss_validated_data, \* st.session_state.validated_data
    analysed,       \* per image: how often its analysis was asked for
    recognized,     \* per image: how often get_order_data ran on it
    \* ---- a call of normalize_item_name on its own ----
    item_text,      \* the text handed to that call
    normalized      \* what the call returned, and whether it changed the alias table

recVars == <<max_retries, use_ocr, ocr, stub, pc, attempt, calls, rstate, rresult,
             last_error, result>>
valVars == <<order_data, auto_learn, items, stores, vpc, idx, validated_data, errors,
             pass, first>>
sesVars == <<pending_review, uploaded_file, image_uploaded, ss_order_data,
             ss_validated_data, analysed, recognized>>
fnVars == <<item_text, normalized>>
vars == <<recVars, valVars, sesVars, fnVars>>

(***************************************************************************)
(* Bounds of the model.                                                    *)
(***************************************************************************)
\* max_retries ranges over 0..MaxRetriesBound (every caller passes the default 3)
MaxRetriesBound == 3
\* order_data holds at most MaxLines candidate lines
MaxLines == 2

(***************************************************************************)
(* Generic helpers on sequences.                                           *)
(***************************************************************************)
Range(s) == {s[i] : i \in 1..Len(s)}

\* s[a..b], empty when a > b
Slice(s, a, b) == IF a > b THEN <<>> ELSE SubSeq(s, a, b)

\* Python: sub in s, for texts as sequences
Contains(s, sub) ==
    \E i \in 0..(Len(s) - Len(sub)) : Slice(s, i + 1, i + Len(sub)) = sub

\* the least element of a non-empty set of integers
Min(S) == CHOOSE x \in S : \A y \in S : x <= y

\* the greatest element of a non-empty set of integers
Max(S) == CHOOSE x \in S : \A y \in S : x >= y

(***************************************************************************)
(* Texts.  A response of the external model is a sequence of tokens:       *)
(*   Fence   a code fence (three backquotes)                               *)
(*   json    the language tag json; js stands for any other tag            *)
(*   a blank stands for white space (a line break)                         *)
(*   p       prose without brackets                                        *)
(*   p{[     prose holding both a brace and a bracket                      *)
(*   [ ] { } null   JSON punctuation and the JSON null                     *)
(*   o1 o2   the members of an order line object (its key/value pairs)     *)
(* A name or a quantity is a sequence of characters.                       *)
(***************************************************************************)
Whitespace == {" "}

\* str.strip()
Strip(s) ==
    LET keep == {i \in 1..Len(s) : s[i] \notin Whitespace}
    IN  IF keep = {} THEN <<>> ELSE SubSeq(s, Min(keep), Max(keep))

\* the token for a code fence, three backquotes
Fence == "fence"
Bodies == {"o1", "o2"}
\* tokens whose text holds an opening brace, and those holding an opening bracket
BraceTokens == {"{", "p{["}
BracketTokens == {"[", "p{["}

(***************************************************************************)
(* Python values returned by the recognizers: a list of objects, a dict    *)
(* (one object), None; error stands for json.JSONDecodeError.              *)
(***************************************************************************)
DataNone == [k |-> "none", v |-> <<>>]
DataError == [k |-> "error", v |-> <<>>]
DataList(bodies) == [k |-> "list", v |-> bodies]
DataDict(body) == [k |-> "dict", v |-> <<body>>]

Truthy_inverted(d) == ~((d.k = "list" /\ d.v # <<>>) \/ d.k = "dict")

\* Python truth of a returned value (if order_data:)
Truthy(d) == (d.k = "list" /\ d.v # <<>>) \/ d.k = "dict"

\* the objects inside an array: brace, members, brace, repeated
RECURSIVE ParseObjects(_)
ParseObjects(s) ==
    IF s = <<>> THEN [ok |-> TRUE, v |-> <<>>]
    ELSE IF Len(s) >= 3 /\ s[1] = "{" /\ s[2] \in Bodies /\ s[3] = "}"
         THEN LET r == ParseObjects(Slice(s, 4, Len(s)))
              IN  [ok |-> r.ok, v |-> <<s[2]>> \o r.v]
         ELSE [ok |-> FALSE, v |-> <<>>]

\* json.loads(text.strip())
JsonLoads(text) ==
    LET s == Strip(text)
        n == Len(s)
    IN  IF s = <<"null">> THEN DataNone
        ELSE IF n = 3 /\ s[1] = "{" /\ s[2] \in Bodies /\ s[3] = "}" THEN DataDict(s[2])
        ELSE IF n >= 2 /\ s[1] = "[" /\ s[n] = "]"
             THEN LET inner == ParseObjects(Slice(s, 2, n - 1))
                  IN  IF inner.ok THEN DataList(inner.v) ELSE DataError
        ELSE DataError

\* positions of the fences of a text
FencePositions(t) == {i \in 1..Len(t) : t[i] = Fence}

\* the part of t that starts after position p and ends before the next fence
PartAfter(t, p) ==
    Slice(t, p + 1, Min({f \in FencePositions(t) : f > p} \cup {Len(t) + 1}) - 1)

\* the test: fence followed by json in response_text
HasJsonFence(t) == \E i \in 1..(Len(t) - 1) : t[i] = Fence /\ t[i + 1] = "json"

\* the test: brace in part and bracket in part
LooksLikeJson(part) ==
    /\ \E i \in 1..Len(part) : part[i] \in BraceTokens
    /\ \E i \in 1..Len(part) : part[i] \in BracketTokens

\* the fence handling of both recognizers, up to the text handed to json.loads
ExtractPayload(t) ==
    IF HasJsonFence(t)
    THEN \* response_text.split(fence json)[1].split(fence)[0]
         LET i == Min({j \in 1..(Len(t) - 1) : t[j] = Fence /\ t[j + 1] = "json"})
         IN  PartAfter(t, i + 1)
    ELSE IF FencePositions(t) # {}
    THEN \* the first part of split(fence) holding brace and bracket, else the text as it is
         LET starts == {p \in {0} \cup FencePositions(t) : LooksLikeJson(PartAfter(t, p))}
         IN  IF starts = {} THEN t ELSE Strip(PartAfter(t, Min(starts)))
    ELSE t

\* response text to returned value (or DataError)
ParseResponse(t) == JsonLoads(ExtractPayload(t))

(***************************************************************************)
(* The external model as a stub: the first stub.fails requests raise an    *)
(* exception, every later one answers with the text stub.response.         *)
(***************************************************************************)
Recognizers == {"text", "image"}

\* exceptions of client.models.generate_content: a quota / rate limit error, any other
ExceptionKinds == {"quota", "other"}

RespArray2 == <<"[", "{", "o1", "}", "{", "o2", "}", "]">>
RespArray1 == <<"[", "{", "o1", "}", "]">>
RespEmptyArray == <<"[", "]">>
RespObject == <<"{", "o1", "}">>
RespFencedJson == <<"p", Fence, "json", " ", "[", "{", "o1", "}", "]", " ", Fence, "p">>
RespFencedPlain == <<Fence, " ", "[", "{", "o2", "}", "]", " ", Fence>>
\* a fence without a language tag around a JSON object
RespFencedObject == <<Fence, " ", "{", "o1", "}", " ", Fence>>
\* a fence with a language tag other than json around a JSON array
RespFencedTagged == <<Fence, "js", " ", "[", "{", "o1", "}", "]", " ", Fence>>
RespProse == <<"p">>
RespTruncated == <<"[", "{", "o1", "}">>

Responses == {RespArray2, RespArray1, RespEmptyArray, RespObject, RespFencedJson,
              RespFencedPlain, RespFencedObject, RespFencedTagged, RespProse,
              RespTruncated}

\* a response that is a JSON array or a JSON object and nothing else
IsBareJson(t) == t \in {RespArray2, RespArray1, RespEmptyArray, RespObject}

(***************************************************************************)
(* OCR.  What the engine reads in an image: whether it ran at all, the     *)
(* length of the stripped text, the number of text lines and the mean      *)
(* token confidence.  pytesseract.image_to_string hands over the text      *)
(* only.                                                                   *)
(***************************************************************************)
OcrOutcomes ==
    { [ok |-> FALSE, len |-> 0,  lines |-> 0, conf |-> 0],
      [ok |-> TRUE,  len |-> 0,  lines |-> 0, conf |-> 0],
      [ok |-> TRUE,  len |-> 10, lines |-> 2, conf |-> 45],
      [ok |-> TRUE,  len |-> 10, lines |-> 1, conf |-> 90],
      [ok |-> TRUE,  len |-> 11, lines |-> 2, conf |-> 45],
      [ok |-> TRUE,  len |-> 11, lines |-> 1, conf |-> 60],
      [ok |-> TRUE,  len |-> 25, lines |-> 2, conf |-> 90] }

\* extract_text_with_ocr: None when OCR is unavailable or fails, else the stripped text
extract_text_with_ocr(o) ==
    IF o.ok THEN [none |-> FALSE, len |-> o.len] ELSE [none |-> TRUE, len |-> 0]

\* def get_order_data(image, use_ocr=True, max_retries=3)
DefaultMaxRetries == 3

\* the least text length get_order_data does not accept
OcrMinChars == 10

OcrUsable_ge(text) == ~text.none /\ text.len >= OcrMinChars

\* if ocr_text and len(ocr_text.strip()) > 10
OcrUsable(text) == ~text.none /\ text.len # 0 /\ text.len > OcrMinChars

(***************************************************************************)
(* The retry loop shared (as duplicated code) by both recognizers.         *)
(***************************************************************************)
\* for attempt in range(max_retries)
LoopContinues(a, m) == a < m

MayRetry_early(a, m) == a < m - 2

\* if attempt < max_retries - 1: ... continue
MayRetry(a, m) == a < m - 1

IsCaught_jsonOnly(kind) == kind = "malformed"

\* except json.JSONDecodeError / except Exception: every failure is handled
IsCaught(kind) == kind \in {"malformed"} \cup ExceptionKinds

AttemptOutcome_hardFail(r, kind) ==
    LET raises  == calls[r] < stub[r].fails
        data    == IF raises THEN DataError ELSE ParseResponse(stub[r].response)
        failure == IF raises THEN kind ELSE IF data.k = "error" THEN "malformed" ELSE "none"
    IN  IF failure = "none" THEN [st |-> "returned", data |-> data, err |-> last_error[r]]
        ELSE IF failure # "other" /\ MayRetry(attempt, max_retries)
             THEN [st |-> "retry", data |-> DataNone, err |-> failure]
        ELSE [st |-> "returned", data |-> DataNone, err |-> failure]

\* one pass through the loop body of recognizer r: the request, the parse, the handlers
AttemptOutcome(r, kind) ==
    LET raises  == calls[r] < stub[r].fails
        data    == IF raises THEN DataError ELSE ParseResponse(stub[r].response)
        failure == IF raises THEN kind ELSE IF data.k = "error" THEN "malformed" ELSE "none"
    IN  IF failure = "none" THEN [st |-> "returned", data |-> data, err |-> last_error[r]]
        ELSE IF ~IsCaught(failure) THEN [st |-> "raised", data |-> DataNone, err |-> failure]
        ELSE IF MayRetry(attempt, max_retries)
             THEN [st |-> "retry", data |-> DataNone, err |-> failure]
        ELSE [st |-> "returned", data |-> DataNone, err |-> failure]

\* get_order_data after recognizer r ended as out.st with out.data
Continue(r, out) ==
    /\ rstate' = IF r = "text" /\ ~(out.st = "returned" /\ Truthy(out.data))
                 THEN [rstate EXCEPT !["text"] = out.st, !["image"] = "running"]
                 ELSE [rstate EXCEPT ![r] = out.st]
    /\ rresult' = [rresult EXCEPT ![r] = out.data]
    /\ IF r = "text"
       THEN IF out.st = "returned" /\ Truthy(out.data)
            THEN pc' = "done" /\ result' = out.data /\ attempt' = attempt
            ELSE \* a falsy result, or an exception swallowed by except Exception: pass
                 pc' = "image" /\ result' = result /\ attempt' = 0
       ELSE /\ pc' = IF out.st = "raised" THEN "raised" ELSE "done"
            /\ result' = out.data
            /\ attempt' = attempt

RecognizerAttempt(r) ==
    /\ pc = r
    /\ LoopContinues(attempt, max_retries)
    /\ calls' = [calls EXCEPT ![r] = @ + 1]
    /\ \E kind \in ExceptionKinds :
         LET out == AttemptOutcome(r, kind)
         IN  /\ last_error' = [last_error EXCEPT ![r] = out.err]
             /\ IF out.st = "retry"
                THEN /\ attempt' = attempt + 1
                     /\ UNCHANGED <<pc, rstate, rresult, result>>
                ELSE Continue(r, out)
    /\ UNCHANGED <<max_retries, use_ocr, ocr, stub, valVars, sesVars, fnVars>>

\* the loop ran out without returning: return None
RecognizerExhausted(r) ==
    /\ pc = r
    /\ ~LoopContinues(attempt, max_retries)
    /\ Continue(r, [st |-> "returned", data |-> DataNone])
    /\ UNCHANGED <<max_retries, use_ocr, ocr, stub, calls, last_error, valVars, sesVars, fnVars>>

get_order_data_from_text == RecognizerAttempt("text")

get_order_data_from_text_exhausted == RecognizerExhausted("text")

get_order_data_from_image == RecognizerAttempt("image")

get_order_data_from_image_exhausted == RecognizerExhausted("image")

\* get_order_data up to the first request: OCR, then the choice of the recognizer
get_order_data ==
    /\ pc = "start"
    /\ LET go == IF use_ocr /\ OcrUsable(extract_text_with_ocr(ocr)) THEN "text" ELSE "image"
       IN  /\ pc' = go
           /\ rstate' = [rstate EXCEPT ![go] = "running"]
    /\ attempt' = 0
    /\ UNCHANGED <<max_retries, use_ocr, ocr, stub, calls, rresult, last_error, result,
                   valVars, sesVars, fnVars>>

(***************************************************************************)
(* The recognition specification: one call of get_order_data.              *)
(***************************************************************************)
\* the images: x and y are photographs the user uploads, m arrives by mail
UploadImages == {"x", "y"}
MailImages == {"m"}
Images == UploadImages \cup MailImages

\* None, as the value of the uploader and of a session entry
NoFile == [name |-> "none", image |-> "none"]
NoData == [src |-> "none", edited |-> FALSE]

\* normalize_item_name not called on its own
NotCalled == [called |-> FALSE, name |-> <<>>, learned |-> FALSE]
FnIdle ==
    /\ item_text = <<>>
    /\ normalized = NotCalled

\* no file written, the session as the script initialises it
SesIdle ==
    /\ pending_review = {}
    /\ uploaded_file = NoFile
    /\ image_uploaded = "none"
    /\ ss_order_data = NoData
    /\ ss_validated_data = NoData
    /\ analysed = [i \in Images |-> 0]
    /\ recognized = [i \in Images |-> 0]

\* validate_and_fix_order_data not called
ValIdle ==
    /\ order_data = <<>>
    /\ auto_learn = TRUE
    /\ items = <<>>
    /\ stores = <<>>
    /\ vpc = "idle"
    /\ idx = 0
    /\ validated_data = <<>>
    /\ errors = <<>>
    /\ pass = 1
    /\ first = [data |-> <<>>, items |-> <<>>, stores |-> <<>>, auto_learn |-> TRUE]

InitRecognize ==
    /\ max_retries \in 0..MaxRetriesBound
    /\ use_ocr \in BOOLEAN
    /\ ocr \in OcrOutcomes
    /\ stub \in [Recognizers -> [fails : 0..MaxRetriesBound, response : Responses]]
    /\ pc = "start"
    /\ attempt = 0
    /\ calls = [r \in Recognizers |-> 0]
    /\ rstate = [r \in Recognizers |-> "idle"]
    /\ rresult = [r \in Recognizers |-> DataNone]
    /\ last_error = [r \in Recognizers |-> "none"]
    /\ result = DataNone
    /\ ValIdle
    /\ SesIdle
    /\ FnIdle

NextRecognize ==
    \/ get_order_data
    \/ get_order_data_from_text
    \/ get_order_data_from_text_exhausted
    \/ get_order_data_from_image
    \/ get_order_data_from_image_exhausted

SpecRecognize == InitRecognize /\ [][NextRecognize]_vars

(***************************************************************************)
(* Claims about the recognizers and the dispatch (SpecRecognize).          *)
(***************************************************************************)
\* the Python value a bare JSON response denotes
ValueOf(t) ==
    CASE t = RespArray2 -> DataList(<<"o1", "o2">>)
      [] t = RespArray1 -> DataList(<<"o1">>)
      [] t = RespEmptyArray -> DataList(<<>>)
      [] t = RespObject -> DataDict("o1")
      [] OTHER -> DataNone

\* the arguments every caller of get_order_data passes (the defaults)
DefaultCall == max_retries = DefaultMaxRetries /\ use_ocr

\* the call of recognizer r is over
Ended(r) == rstate[r] \in {"returned", "raised"}

\* C2: when the external call fails k < max_retries times and then answers with valid
\* JSON, the recognizer returns the value of that answer after exactly k + 1 requests
C2_RetrySuccess ==
    \A r \in Recognizers :
        (Ended(r) /\ stub[r].fails < max_retries /\ IsBareJson(stub[r].response))
            => /\ rstate[r] = "returned"
               /\ rresult[r] = ValueOf(stub[r].response)
               /\ calls[r] = stub[r].fails + 1

\* two failures, then an array: returned by the third request of the text recognizer
C2_Witness ==
    /\ rstate["text"] = "returned"
    /\ max_retries = 3
    /\ stub["text"].fails = 2
    /\ stub["text"].response = RespArray2
    /\ calls["text"] = 3
    /\ result = DataList(<<"o1", "o2">>)

\* every request of recognizer r fails: by an exception, or by an answer that is no JSON
AlwaysFails(r) ==
    stub[r].fails >= max_retries \/ stub[r].response \in {RespProse, RespTruncated}

\* C3: when every attempt fails, the recognizer makes exactly max_retries requests and
\* returns None; no exception leaves the recognizer or get_order_data
C3_RetryExhaustion ==
    /\ pc # "raised"
    /\ \A r \in Recognizers :
        /\ rstate[r] # "raised"
        /\ (Ended(r) /\ AlwaysFails(r))
              => /\ rresult[r] = DataNone
                 /\ calls[r] = max_retries

\* three exceptions exhaust the image recognizer, get_order_data returns None
C3_Witness ==
    /\ pc = "done"
    /\ max_retries = 3
    /\ stub["image"].fails = 3
    /\ calls["image"] = 3
    /\ last_error["image"] \in ExceptionKinds
    /\ rstate["image"] = "returned"
    /\ result = DataNone

\* the text recognizer returned a non-empty list or an object
TextGaveData ==
    /\ rstate["text"] = "returned"
    /\ \/ rresult["text"].k = "dict"
       \/ rresult["text"].k = "list" /\ Len(rresult["text"].v) > 0

C10_ObjectWrapped ==
    \A r \in Recognizers :
        (rstate[r] = "returned" /\ DefaultCall /\ stub[r].fails < max_retries
            /\ stub[r].response = RespObject)
            => rresult[r] = DataList(<<"o1">>)

\* the fenced responses, each with the bare JSON payload inside its fence
FencedForms ==
    { [text |-> RespFencedJson,   payload |-> <<"[", "{", "o1", "}", "]">>],
      [text |-> RespFencedPlain,  payload |-> <<"[", "{", "o2", "}", "]">>],
      [text |-> RespFencedObject, payload |-> <<"{", "o1", "}">>],
      [text |-> RespFencedTagged, payload |-> <<"[", "{", "o1", "}", "]">>] }

\* C11: a response that wraps a valid JSON payload (array or object) in a fenced code
\* block, with or without a language tag and prose around it, is parsed to the value
\* of the bare payload
C11_FencedPayloadExtracted ==
    \A r \in Recognizers : \A f \in FencedForms :
        (Ended(r) /\ DefaultCall /\ stub[r].fails < max_retries
            /\ stub[r].response = f.text)
            => /\ rstate[r] = "returned"
               /\ rresult[r] = JsonLoads(f.payload)

\* C12 as stated: a failure of the external call that is no quota failure is not
\* retried: the service is requested exactly once and the failure surfaces at once
C12_OtherFailureNotRetried ==
    \A r \in Recognizers :
        (Ended(r) /\ DefaultCall /\ stub[r].fails = 1 /\ IsBareJson(stub[r].response)
            /\ last_error[r] = "other")
            => /\ calls[r] = 1
               /\ rstate[r] = "raised"

\* the requests a recognizer makes when every failure is retried up to max_retries
RequestsWhenRetried(r) ==
    IF stub[r].fails < max_retries /\ ParseResponse(stub[r].response).k # "error"
    THEN stub[r].fails + 1
    ELSE max_retries

\* C12 amended: a failure of the external call is retried whatever its kind, quota or
\* not: the request is repeated until one succeeds or max_retries requests were made,
\* and the recognizer returns (None after the last failure), it never raises
C12_EveryFailureRetried ==
    \A r \in Recognizers :
        (Ended(r) /\ stub[r].fails >= 1)
            => /\ rstate[r] = "returned"
               /\ calls[r] = RequestsWhenRetried(r)
               /\ stub[r].fails >= max_retries => rresult[r] = DataNone

\* one failure that is no quota failure, then an array: returned by the second request
C12_Witness ==
    /\ pc = "done"
    /\ DefaultCall
    /\ stub["image"].fails = 1
    /\ stub["image"].response = RespArray1
    /\ last_error["image"] = "other"
    /\ calls["image"] = 2
    /\ rstate["image"] = "returned"
    /\ result = DataList(<<"o1">>)

\* OCR was asked for and gave more than 10 characters of text
OcrGaveText == use_ocr /\ ocr.ok /\ ocr.len > 10

\* what holds in every state of a call of get_order_data
DispatchState ==
    /\ calls["image"] > 0
          => \/ ~OcrGaveText /\ calls["text"] = 0
             \/ Ended("text") /\ ~TextGaveData
    /\ TextGaveData => calls["image"] = 0 /\ rstate["image"] = "idle"
    /\ (pc = "done" /\ TextGaveData) => result = rresult["text"]
    /\ calls["text"] + calls["image"] <= 2 * max_retries

\* what holds of every step: no request of AI-text once AI-vision was requested
DispatchStep == calls["text"]' # calls["text"] => calls["image"] = 0 /\ calls["image"]' = 0

\* C19: in one call of get_order_data AI-vision is requested only when OCR gave no
\* usable text or AI-text has finished with an empty or failed result; AI-text is never
\* requested after AI-vision; a non-empty AI-text result is returned without any
\* AI-vision request; the call makes at most 2 * max_retries requests
C19_DispatchOrder == []DispatchState /\ [][DispatchStep]_vars

\* AI-text fails three times, then AI-vision fails three times: six requests
C19_Witness ==
    /\ pc = "done"
    /\ DefaultCall
    /\ OcrGaveText
    /\ calls["text"] = 3
    /\ calls["image"] = 3
    /\ result = DataNone

\* C13: when every attempt for an input ended in a quota failure, exactly one
\* pending-review entry is written for that input; none is written when it succeeds
C13_PendingReviewEntry ==
    /\ (pc = "done" /\ DefaultCall /\ rstate["image"] = "returned"
          /\ stub["image"].fails >= max_retries /\ last_error["image"] = "quota")
           => Cardinality(pending_review) = 1
    /\ (pc = "done" /\ Truthy(result)) => pending_review = {}

(***************************************************************************)
(* Reconciliation: Python values of the fields of a candidate line.        *)
(* A value is missing (the key is absent), None, an int, a str or a float  *)
(* (held as the characters of its str()).                                  *)
(***************************************************************************)
Missing == [t |-> "missing", n |-> 0, s |-> <<>>]
PyNone == [t |-> "none", n |-> 0, s |-> <<>>]
PyInt(n) == [t |-> "int", n |-> n, s |-> <<>>]
PyStr(s) == [t |-> "str", n |-> 0, s |-> s]
PyFloat(s) == [t |-> "float", n |-> 0, s |-> s]

\* entry.get(key, default)
Get(entry, key, default) == IF entry[key].t = "missing" THEN default ELSE entry[key]

\* the value has a strip method (None, int and float raise AttributeError)
HasStrip(v) == v.t = "str"

Digits == {"0", "1", "2", "3", "4", "5", "6", "7", "8", "9"}

DigitValue(c) ==
    CASE c = "0" -> 0 [] c = "1" -> 1 [] c = "2" -> 2 [] c = "3" -> 3 [] c = "4" -> 4
      [] c = "5" -> 5 [] c = "6" -> 6 [] c = "7" -> 7 [] c = "8" -> 8 [] c = "9" -> 9

\* re.sub(r'\D', '', s): the digits of s, in order
RECURSIVE StripNonDigits(_)
StripNonDigits(s) ==
    IF s = <<>> THEN <<>>
    ELSE (IF Head(s) \in Digits THEN <<Head(s)>> ELSE <<>>) \o StripNonDigits(Tail(s))

\* int(s) for a text of digits
RECURSIVE IntOfDigits(_)
IntOfDigits(s) ==
    IF s = <<>> THEN 0
    ELSE 10 * IntOfDigits(SubSeq(s, 1, Len(s) - 1)) + DigitValue(s[Len(s)])

\* safe_int
safe_int(v) ==
    IF v.t = "none" THEN 0
    ELSE IF v.t = "int" THEN v.n
    ELSE LET s == StripNonDigits(v.s)
         IN  IF s # <<>> THEN IntOfDigits(s) ELSE 0

(***************************************************************************)
(* Names, the known store list and the alias table.                        *)
(***************************************************************************)
\* an optional str: None or a text
NoName == [none |-> TRUE, s |-> <<>>]
Name(s) == [none |-> FALSE, s |-> s]

\* Python truth of an optional str
Falsy(o) == o.none \/ o.s = <<>>

\* o or d
OrElse(o, d) == IF Falsy(o) THEN d ELSE o.s

\* the first of the indices that match, 0 when there is none
FirstIndex(hits) == IF hits = {} THEN 0 ELSE Min(hits)

\* auto_learn_store of config_manager: the name is registered as a known store
auto_learn_store(sts, s) ==
    [name |-> Name(s), stores |-> IF s \in Range(sts) THEN sts ELSE Append(sts, s)]

\* auto_learn_item of config_manager: the text becomes a canonical entry of its own, or a
\* variant of an entry it shares a character with; the canonical name is returned
auto_learn_item(its, s) ==
    LET own == {i \in 1..Len(its) : its[i].n = s}
        asNew == IF own = {}
                 THEN [name |-> s, items |-> Append(its, [n |-> s, v |-> {s}])]
                 ELSE [name |-> s,
                       items |-> [its EXCEPT ![Min(own)].v = @ \cup {s}]]
        near == {i \in 1..Len(its) : Range(its[i].n) \cap Range(s) # {}}
    IN  {asNew} \cup
        {[name |-> its[i].n, items |-> [its EXCEPT ![i].v = @ \cup {s}]] : i \in near}

\* validate_store_name
validate_store_name(store_name, al, sts) ==
    IF store_name = <<>> THEN [name |-> NoName, stores |-> sts]
    ELSE LET s == Strip(store_name)
             Near(known) == Contains(s, known) \/ Contains(known, s)
             i == FirstIndex({k \in 1..Len(sts) : Near(sts[k])})
         IN  IF s \in Range(sts) THEN [name |-> Name(s), stores |-> sts]
             ELSE IF i # 0 THEN [name |-> Name(sts[i]), stores |-> sts]
             ELSE IF al THEN auto_learn_store(sts, s)
             ELSE [name |-> NoName, stores |-> sts]

\* item_name in variants or any(variant in item_name for variant in variants)
ItemMatches(s, entry) == s \in entry.v \/ \E variant \in entry.v : Contains(s, variant)

\* normalize_item_name: the set of results (auto-learn may choose)
normalize_item_name(item_name, al, its) ==
    IF item_name = <<>> THEN {[name |-> <<>>, items |-> its]}
    ELSE LET s == Strip(item_name)
             Hit(e) == ItemMatches(s, e)
             i == FirstIndex({k \in 1..Len(its) : Hit(its[k])})
         IN  IF i # 0 THEN {[name |-> its[i].n, items |-> its]}
             ELSE IF al THEN auto_learn_item(its, s)
             ELSE {[name |-> s, items |-> its]}

(***************************************************************************)
(* validate_and_fix_order_data, one candidate line at a time.              *)
(***************************************************************************)
StoreStep_keepRaw(store, al, sts) ==
    LET r == validate_store_name(store, al, sts)
    IN  IF Falsy(r.name) /\ store # <<>>
        THEN IF al
             THEN LET again == auto_learn_store(r.stores, store)
                  IN  [name |-> again.name, stores |-> again.stores, errs |-> <<>>]
             ELSE [name |-> r.name, stores |-> r.stores, errs |-> <<"unknown_store">>]
        ELSE [name |-> r.name, stores |-> r.stores, errs |-> <<>>]

\* lines 307-320: the store of a line; the result and what it leaves behind
StoreStep(store, al, sts) ==
    LET r == validate_store_name(store, al, sts)
    IN  IF Falsy(r.name) /\ store # <<>>
        THEN IF al
             THEN LET again == auto_learn_store(r.stores, store)
                  IN  [name |-> again.name, stores |-> again.stores, errs |-> <<>>]
             ELSE \* the first known store sharing a character with the text, if any
                  LET Shares(known) == Range(known) \cap Range(store) # {}
                      i == FirstIndex({k \in 1..Len(sts) : Shares(sts[k])})
                  IN  [name |-> IF i # 0 THEN Name(sts[i]) ELSE r.name,
                       stores |-> r.stores,
                       errs |-> <<"unknown_store">>]
        ELSE [name |-> r.name, stores |-> r.stores, errs |-> <<>>]

\* lines 322-330: the item of a line; the set of results
ItemStep(item, al, its) ==
    UNION { IF r.name = <<>> /\ item # <<>>
            THEN IF al
                 THEN {[name |-> x.name, items |-> x.items, errs |-> <<>>]
                          : x \in auto_learn_item(r.items, item)}
                 ELSE {[name |-> r.name, items |-> r.items,
                        errs |-> <<"item_not_normalized">>]}
            ELSE {[name |-> r.name, items |-> r.items, errs |-> <<>>]}
          : r \in normalize_item_name(item, al, its) }

\* the loop body for entry e (lines 302-350): every way it can end
EntryOutcomes(e, al, its, sts) ==
    IF \/ e.t # "dict"
       \/ ~HasStrip(Get(e, "store", PyStr(<<>>)))
       \/ ~HasStrip(Get(e, "item", PyStr(<<>>)))
    THEN \* entry.get or .strip() raises AttributeError before anything is learned
         {[raised |-> TRUE, items |-> its, stores |-> sts, errs |-> <<>>, line |-> <<>>]}
    ELSE LET store == Strip(Get(e, "store", PyStr(<<>>)).s)
             item == Strip(Get(e, "item", PyStr(<<>>)).s)
             sv == StoreStep(store, al, sts)
             unit == safe_int(Get(e, "unit", PyInt(0)))
             boxes == safe_int(Get(e, "boxes", PyInt(0)))
             remainder == safe_int(Get(e, "remainder", PyInt(0)))
             zero == IF unit = 0 /\ boxes = 0 /\ remainder = 0
                     THEN <<"all_zero">> ELSE <<>>
             spec == Get(e, "spec", PyStr(<<>>))
         IN  { [raised |-> ~HasStrip(spec),
                items |-> iv.items,
                stores |-> sv.stores,
                errs |-> sv.errs \o iv.errs \o zero,
                line |-> IF HasStrip(spec)
                         THEN <<[store |-> OrElse(sv.name, store),
                                 item |-> IF iv.name # <<>> THEN iv.name ELSE item,
                                 spec |-> Strip(spec.s),
                                 unit |-> unit,
                                 boxes |-> boxes,
                                 remainder |-> remainder]>>
                         ELSE <<>>]
               : iv \in ItemStep(item, al, its) }

\* lines 290-300: the call; a falsy order_data returns [] at once
validate_and_fix_order_data ==
    /\ vpc = "call"
    /\ validated_data' = <<>>
    /\ errors' = <<>>
    /\ IF order_data = <<>>
       THEN vpc' = "done" /\ idx' = 0
       ELSE vpc' = "loop" /\ idx' = 1
    /\ UNCHANGED <<order_data, auto_learn, items, stores, pass, first, recVars, sesVars, fnVars>>

\* lines 302-365: one pass of the loop; after the last entry the list is returned
validate_entry ==
    /\ vpc = "loop"
    /\ idx <= Len(order_data)
    /\ \E o \in EntryOutcomes(order_data[idx], auto_learn, items, stores) :
         /\ items' = o.items
         /\ stores' = o.stores
         /\ IF o.raised
            THEN /\ vpc' = "raised"
                 /\ UNCHANGED <<validated_data, errors, idx>>
            ELSE /\ validated_data' = validated_data \o o.line
                 /\ errors' = errors \o [k \in 1..Len(o.errs) |->
                                            [line |-> idx, kind |-> o.errs[k]]]
                 /\ idx' = idx + 1
                 /\ vpc' = IF idx = Len(order_data) THEN "done" ELSE "loop"
    /\ UNCHANGED <<order_data, auto_learn, pass, first, recVars, sesVars, fnVars>>

\* a validated line handed to validate_and_fix_order_data again
AsCandidate(line) ==
    [t |-> "dict", store |-> PyStr(line.store), item |-> PyStr(line.item),
     spec |-> PyStr(line.spec), unit |-> PyInt(line.unit), boxes |-> PyInt(line.boxes),
     remainder |-> PyInt(line.remainder), total |-> Missing]

\* lines 640-644: the PDF button validates st.session_state.validated_data once more
final_validation ==
    /\ vpc = "done"
    /\ pass = 1
    /\ validated_data # <<>>
    /\ first' = [data |-> validated_data, items |-> items, stores |-> stores,
                 auto_learn |-> auto_learn]
    /\ order_data' = [i \in 1..Len(validated_data) |-> AsCandidate(validated_data[i])]
    /\ auto_learn' = TRUE
    /\ pass' = 2
    /\ vpc' = "call"
    /\ UNCHANGED <<items, stores, idx, validated_data, errors, recVars, sesVars, fnVars>>

(***************************************************************************)
(* The inputs of the reconciliation specification.                         *)
(***************************************************************************)
NameA == <<"a">>
NameB == <<"b">>
NameC == <<"c">>
NameAB == <<"a", "b">>
NameBC == <<"b", "c">>

\* a well formed candidate line: store a, item b, 30 per box, 1 box, no remainder
BaseLine ==
    [t |-> "dict", store |-> PyStr(NameA), item |-> PyStr(NameB), spec |-> PyStr(<<"x">>),
     unit |-> PyInt(30), boxes |-> PyInt(1), remainder |-> PyInt(0), total |-> Missing]

\* a line of which only the gross total was recovered
TotalOnlyLine(total) ==
    [BaseLine EXCEPT !.unit = Missing, !.boxes = Missing, !.remainder = Missing,
                     !.total = PyInt(total)]

\* an element that is no dict: a key of a bare JSON object iterated as order_data
KeyElement ==
    [t |-> "str", store |-> Missing, item |-> Missing, spec |-> Missing,
     unit |-> Missing, boxes |-> Missing, remainder |-> Missing, total |-> Missing]

StoreValues ==
    {Missing, PyNone, PyStr(<<>>), PyStr(NameA), PyStr(<<" ", "a", "b", " ">>),
     PyStr(NameBC)}
ItemValues ==
    {Missing, PyNone, PyStr(NameB), PyStr(NameAB), PyStr(<<" ">>), PyStr(NameC)}
SpecValues == {Missing, PyNone, PyStr(<<"x", " ">>)}
UnitValues ==
    {Missing, PyNone, PyInt(0), PyInt(-5), PyInt(50), PyStr(<<"1", "x", "2">>),
     PyStr(<<"x">>), PyFloat(<<"2", ".", "5">>)}
BoxesValues == {Missing, PyInt(0), PyStr(<<"2">>)}
RemainderValues == {PyNone, PyInt(50), PyInt(-5), PyStr(<<"-", "5">>)}

Candidates ==
    {[BaseLine EXCEPT !.store = v] : v \in StoreValues}
    \cup {[BaseLine EXCEPT !.item = v] : v \in ItemValues}
    \cup {[BaseLine EXCEPT !.spec = v] : v \in SpecValues}
    \cup {[BaseLine EXCEPT !.unit = v] : v \in UnitValues}
    \cup {[BaseLine EXCEPT !.boxes = v] : v \in BoxesValues}
    \cup {[BaseLine EXCEPT !.remainder = v] : v \in RemainderValues}
    \cup {TotalOnlyLine(50), TotalOnlyLine(20)}

\* alias tables, in dict order: canonical name and its variants
AliasTables ==
    { <<>>,
      <<[n |-> NameA, v |-> {NameA}], [n |-> NameAB, v |-> {NameAB, NameB}]>>,
      <<[n |-> NameA, v |-> {NameA}], [n |-> NameC, v |-> {NameAB}]>> }

StoreLists == { <<>>, <<NameA>>, <<NameAB, NameA>> }

InitReconcile ==
    /\ order_data \in UNION {[1..n -> Candidates] : n \in 0..MaxLines}
                        \cup {<<KeyElement, KeyElement>>}
    /\ auto_learn \in BOOLEAN
    /\ items \in AliasTables
    /\ stores \in StoreLists
    /\ vpc = "call"
    /\ idx = 0
    /\ validated_data = <<>>
    /\ errors = <<>>
    /\ pass = 1
    /\ first = [data |-> <<>>, items |-> <<>>, stores |-> <<>>, auto_learn |-> TRUE]
    /\ max_retries = DefaultMaxRetries
    /\ use_ocr = TRUE
    /\ ocr = [ok |-> FALSE, len |-> 0, lines |-> 0, conf |-> 0]
    /\ stub = [r \in Recognizers |-> [fails |-> 0, response |-> RespArray1]]
    /\ pc = "idle"
    /\ attempt = 0
    /\ calls = [r \in Recognizers |-> 0]
    /\ rstate = [r \in Recognizers |-> "idle"]
    /\ rresult = [r \in Recognizers |-> DataNone]
    /\ last_error = [r \in Recognizers |-> "none"]
    /\ result = DataNone
    /\ SesIdle
    /\ FnIdle

NextReconcile ==
    \/ validate_and_fix_order_data
    \/ validate_entry
    \/ final_validation

SpecReconcile == InitReconcile /\ [][NextReconcile]_vars

(***************************************************************************)
(* Claims about reconciliation (SpecReconcile).                            *)
(***************************************************************************)
\* order_data is a list of candidate lines (dicts), validated for the first time as
\* the program does it, with auto-learn on
FirstPass ==
    /\ pass = 1
    /\ auto_learn
    /\ \A i \in 1..Len(order_data) : order_data[i].t = "dict"

\* the call of validate_and_fix_order_data is over
ValidationEnded == vpc \in {"done", "raised"}

\* C1: reconciliation emits exactly one line per candidate, in input order, output i
\* being derived from input i, also for unknown names and all-zero quantities
C1_OneLinePerCandidate ==
    (FirstPass /\ ValidationEnded)
        => /\ vpc = "done"
           /\ Len(validated_data) = Len(order_data)
           /\ \A i \in 1..Len(order_data) :
                /\ validated_data[i].unit = safe_int(Get(order_data[i], "unit", PyInt(0)))
                /\ validated_data[i].boxes = safe_int(Get(order_data[i], "boxes", PyInt(0)))
                /\ validated_data[i].remainder
                      = safe_int(Get(order_data[i], "remainder", PyInt(0)))
                /\ validated_data[i].spec = Strip(Get(order_data[i], "spec", PyStr(<<>>)).s)

\* the line carries a gross total and no unit, boxes or remainder
OnlyTotal(e) ==
    /\ e.total.t = "int"
    /\ e.unit.t = "missing" /\ e.boxes.t = "missing" /\ e.remainder.t = "missing"

\* C5: a line that carries only a gross total is emitted with unit, boxes and remainder
\* (and the half box of 50, if used) adding up to that total
C5_TotalDerived ==
    (FirstPass /\ vpc = "done")
        => \A i \in 1..Len(order_data) :
              OnlyTotal(order_data[i])
                 => \E half \in {0, 50} :
                       validated_data[i].unit * validated_data[i].boxes
                          + validated_data[i].remainder + half = order_data[i].total.n

\* the value is an int that is not negative
PlainQuantity(v) == v.t = "int" /\ v.n >= 0

\* C6: every emitted line has remainder < unit unless unit = 0, also when the
\* candidate states a remainder that is not below its unit
C6_RemainderBelowUnit ==
    (FirstPass /\ vpc = "done")
        => \A i \in 1..Len(order_data) :
              (/\ PlainQuantity(order_data[i].unit)
               /\ PlainQuantity(order_data[i].boxes)
               /\ PlainQuantity(order_data[i].remainder)
               /\ validated_data[i].unit # 0)
                 => validated_data[i].remainder < validated_data[i].unit

\* C7: validating the validated list again (the PDF button) returns the same lines and
\* leaves the alias table and the known store list as they were
C7_Idempotent ==
    (pass = 2 /\ first.auto_learn /\ ValidationEnded)
        => /\ vpc = "done"
           /\ validated_data = first.data
           /\ items = first.items
           /\ stores = first.stores

IsText(x) == x \in Seq({"a", "b", "c", "x", " "})

\* C8: whatever keys of a candidate are present, and whether a value is None,
\* reconciliation ends without an error and emits texts and numbers
C8_NoErrorTypedFields ==
    FirstPass
        => /\ vpc # "raised"
           /\ \A i \in 1..Len(validated_data) :
                /\ IsText(validated_data[i].store)
                /\ IsText(validated_data[i].item)
                /\ IsText(validated_data[i].spec)
                /\ validated_data[i].unit \in Int
                /\ validated_data[i].boxes \in Int
                /\ validated_data[i].remainder \in Int

\* the digits of a value, as a number: 0 when there is none
DigitsOf(v) ==
    IF v.t \in {"none", "missing"} THEN 0
    ELSE IF v.t = "int" THEN (IF v.n < 0 THEN 0 - v.n ELSE v.n)
    ELSE IntOfDigits(StripNonDigits(v.s))

\* C9: unit, boxes and remainder are emitted as integers >= 0: the digits of the
\* candidate value, 0 when nothing parsable remains
C9_QuantitiesNonNegative ==
    (FirstPass /\ vpc = "done")
        => \A i \in 1..Len(order_data) :
              \A key \in {"unit", "boxes", "remainder"} :
                 /\ validated_data[i][key] >= 0
                 /\ validated_data[i][key] = DigitsOf(order_data[i][key])

\* the stripped store text of a candidate, the empty text when it has none
StoreText(e) == Strip(Get(e, "store", PyStr(<<>>)).s)

\* the text is non-empty and matches no known store, exactly or as a substring either way
UnknownStore(text) ==
    /\ text # <<>>
    /\ \A k \in 1..Len(stores) :
          text # stores[k] /\ ~Contains(text, stores[k]) /\ ~Contains(stores[k], text)

\* the known stores that share a character with the text, by position
SharingStores(text) == {k \in 1..Len(stores) : Range(stores[k]) \cap Range(text) # {}}

\* validation is over, for a list of lines with texts as stores, auto-learn disabled
DoneWithoutLearning ==
    /\ pass = 1
    /\ ~auto_learn
    /\ vpc = "done"
    /\ \A i \in 1..Len(order_data) : order_data[i].t = "dict"

CodePoint(c) ==
    CASE c = " " -> 32 [] c = "a" -> 97 [] c = "b" -> 98 [] c = "c" -> 99 [] c = "x" -> 120

\* a < b for texts
StrLess(a, b) ==
    \E k \in 1..(Len(a) + 1) :
        /\ k <= Len(b)
        /\ \A j \in 1..(k - 1) : a[j] = b[j]
        /\ k = Len(a) + 1 \/ CodePoint(a[k]) < CodePoint(b[k])

\* safe_int(unit) * safe_int(boxes) + safe_int(remainder) of a validated line
EntryTotal(e) ==
    safe_int(PyInt(e.unit)) * safe_int(PyInt(e.boxes)) + safe_int(PyInt(e.remainder))

RECURSIVE Accumulate_overwrite(_, _)
Accumulate_overwrite(d, lines) ==
    IF lines = <<>> THEN d
    ELSE LET e == Head(lines)
             hit == {k \in 1..Len(d) : d[k].item = e.item}
         IN  Accumulate_overwrite(
                 IF hit = {} THEN Append(d, [item |-> e.item, total |-> EntryTotal(e)])
                 ELSE [d EXCEPT ![Min(hit)].total = EntryTotal(e)],
                 Tail(lines))

\* for entry in lines: d[item] += total, on a defaultdict(int), which keeps the order
\* in which its keys were first set
RECURSIVE Accumulate(_, _)
Accumulate(d, lines) ==
    IF lines = <<>> THEN d
    ELSE LET e == Head(lines)
             hit == {k \in 1..Len(d) : d[k].item = e.item}
         IN  Accumulate(
                 IF hit = {} THEN Append(d, [item |-> e.item, total |-> 0 + EntryTotal(e)])
                 ELSE [d EXCEPT ![Min(hit)].total = @ + EntryTotal(e)],
                 Tail(lines))

\* sorted(d.items()): the rows by ascending item
Sorted(d) ==
    LET Rank(k) == Cardinality({j \in 1..Len(d) : StrLess(d[j].item, d[k].item)}) + 1
    IN  [p \in 1..Len(d) |-> d[CHOOSE k \in 1..Len(d) : Rank(k) = p]]

\* the rows of the table of totals on the screen
summary_data(lines) == Sorted(Accumulate(<<>>, lines))

\* the rows of the chat text
line_text(final_data) == Accumulate(<<>>, final_data)

\* the sum of unit * boxes + remainder over the lines of the item
RECURSIVE SumOver(_, _)
SumOver(lines, item) ==
    IF lines = <<>> THEN 0
    ELSE (IF Head(lines).item = item
          THEN Head(lines).unit * Head(lines).boxes + Head(lines).remainder
          ELSE 0) + SumOver(Tail(lines), item)

\* the summary has one row per item of the lines, holding the sum over its lines
MapsItemsToSums(summary, lines) ==
    /\ {summary[k].item : k \in 1..Len(summary)} = {lines[i].item : i \in 1..Len(lines)}
    /\ \A j, k \in 1..Len(summary) : summary[j].item = summary[k].item => j = k
    /\ \A k \in 1..Len(summary) : summary[k].total = SumOver(lines, summary[k].item)

\* the rows are in the order in which their items first occur in the lines
InFirstOccurrenceOrder(summary, lines) ==
    \A j, k \in 1..Len(summary) :
        j < k => Min({i \in 1..Len(lines) : lines[i].item = summary[j].item})
                    < Min({i \in 1..Len(lines) : lines[i].item = summary[k].item})

\* the rows are in ascending order of their items
InItemOrder(summary) ==
    \A j, k \in 1..Len(summary) : j < k => StrLess(summary[j].item, summary[k].item)

\* the table of totals is on the screen / the chat text has been made
TotalsShown == pass = 1 /\ vpc = "done" /\ validated_data # <<>>
ChatTextMade == pass = 2 /\ vpc = "done"

\* C18 as stated: the table of totals on the screen and the chat text map each item
\* to the sum of unit * boxes + remainder over its lines and list the items in the
\* order of their first occurrence in the lines
C18_FirstOccurrenceOrder ==
    /\ (TotalsShown /\ auto_learn /\ items \in AliasTables
          /\ \A i \in 1..Len(validated_data) : validated_data[i].item # <<>>)
          => /\ MapsItemsToSums(summary_data(validated_data), validated_data)
             /\ InFirstOccurrenceOrder(summary_data(validated_data), validated_data)
    /\ ChatTextMade
          => /\ MapsItemsToSums(line_text(validated_data), validated_data)
             /\ InFirstOccurrenceOrder(line_text(validated_data), validated_data)

\* C18 amended: both summaries map each item to the sum over its lines; the chat text
\* lists the items in the order of their first occurrence in the finally validated
\* lines, the table on the screen lists them in ascending order of the item names
C18_SummaryOrders ==
    /\ TotalsShown
          => /\ MapsItemsToSums(summary_data(validated_data), validated_data)
             /\ InItemOrder(summary_data(validated_data))
    /\ ChatTextMade
          => /\ MapsItemsToSums(line_text(validated_data), validated_data)
             /\ InFirstOccurrenceOrder(line_text(validated_data), validated_data)

\* two lines of the item b, 30 and 50 pieces: the table and the chat text have the one
\* row b, 80
C18_Witness ==
    /\ ChatTextMade
    /\ Len(validated_data) = 2
    /\ validated_data[1].item = NameB /\ validated_data[2].item = NameB
    /\ validated_data[1].unit = 30 /\ validated_data[2].unit = 50
    /\ line_text(validated_data) = <<[item |-> NameB, total |-> 80]>>
    /\ summary_data(first.data) = <<[item |-> NameB, total |-> 80]>>

(***************************************************************************)
(* The Streamlit session.  Every action is one interaction of the user     *)
(* followed by the run of the script it triggers.  An analysis is taken as *)
(* a whole: get_order_data, then validate_and_fix_order_data.              *)
(***************************************************************************)
\* each image is analysed at most MaxAnalyses times
MaxAnalyses == 2

\* the files the user can choose: a file name and the image inside
FileNames == {"f1", "f2"}
Files == [name : FileNames, image : UploadImages]

\* how an analysis ends: lines were read, nothing was read (None or an empty list),
\* or an exception left validate_and_fix_order_data
AnalysisOutcomes == {"data", "none", "raised"}

\* order_data = get_order_data(image); if order_data: validate and store both
Analyse(img, out) ==
    /\ analysed' = [analysed EXCEPT ![img] = @ + 1]
    /\ recognized' = [recognized EXCEPT ![img] = @ + 1]
    /\ IF out = "data"
       THEN /\ ss_order_data' = [src |-> img, edited |-> FALSE]
            /\ ss_validated_data' = [src |-> img, edited |-> FALSE]
       ELSE UNCHANGED <<ss_order_data, ss_validated_data>>

\* the user puts a file into the uploader; the session is reset when its name is new
file_uploader ==
    \E f \in Files :
        /\ f # uploaded_file
        /\ uploaded_file' = f
        /\ IF image_uploaded # f.name
           THEN /\ ss_order_data' = NoData
                /\ ss_validated_data' = NoData
                /\ image_uploaded' = f.name
           ELSE UNCHANGED <<ss_order_data, ss_validated_data, image_uploaded>>
        /\ UNCHANGED <<pending_review, analysed, recognized, recVars, valVars, fnVars>>

\* the user takes the file out of the uploader: nothing below if uploaded_file runs
file_removed ==
    /\ uploaded_file # NoFile
    /\ uploaded_file' = NoFile
    /\ UNCHANGED <<pending_review, image_uploaded, ss_order_data, ss_validated_data,
                   analysed, recognized, recVars, valVars, fnVars>>

\* the analyse button of the image tab
analyse_button ==
    /\ uploaded_file # NoFile
    /\ analysed[uploaded_file.image] < MaxAnalyses
    /\ \E out \in AnalysisOutcomes : Analyse(uploaded_file.image, out)
    /\ UNCHANGED <<pending_review, uploaded_file, image_uploaded, recVars, valVars, fnVars>>

\* the reset button of the image tab
reset_button ==
    /\ uploaded_file # NoFile
    /\ ss_order_data' = NoData
    /\ ss_validated_data' = NoData
    /\ UNCHANGED <<pending_review, uploaded_file, image_uploaded, analysed, recognized,
                   recVars, valVars, fnVars>>

\* the user changes a cell of the table: validated_data is replaced by the edited rows
data_editor ==
    /\ uploaded_file # NoFile
    /\ ss_validated_data # NoData
    /\ ss_validated_data' = [ss_validated_data EXCEPT !.edited = TRUE]
    /\ UNCHANGED <<pending_review, uploaded_file, image_uploaded, ss_order_data, analysed,
                   recognized, recVars, valVars, fnVars>>

\* the analyse button under an image fetched from the mailbox
email_analyse_button ==
    /\ \E img \in MailImages :
         /\ analysed[img] < MaxAnalyses
         /\ \E out \in AnalysisOutcomes \ {"raised"} : Analyse(img, out)
    /\ UNCHANGED <<pending_review, uploaded_file, image_uploaded, recVars, valVars, fnVars>>

InitSession ==
    /\ SesIdle
    /\ FnIdle
    /\ ValIdle
    /\ max_retries = DefaultMaxRetries
    /\ use_ocr = TRUE
    /\ ocr = [ok |-> FALSE, len |-> 0, lines |-> 0, conf |-> 0]
    /\ stub = [r \in Recognizers |-> [fails |-> 0, response |-> RespArray1]]
    /\ pc = "idle"
    /\ attempt = 0
    /\ calls = [r \in Recognizers |-> 0]
    /\ rstate = [r \in Recognizers |-> "idle"]
    /\ rresult = [r \in Recognizers |-> DataNone]
    /\ last_error = [r \in Recognizers |-> "none"]
    /\ result = DataNone

NextSession ==
    \/ file_uploader
    \/ file_removed
    \/ analyse_button
    \/ reset_button
    \/ data_editor
    \/ email_analyse_button

SpecSession == InitSession /\ [][NextSession]_vars

(***************************************************************************)
(* Claims about the session (SpecSession).                                 *)
(***************************************************************************)
\* C14: analysing the same image twice invokes the recognizer exactly once, the second
\* analysis being served from the recognition cache
C14_SecondAnalysisCached ==
    \A img \in UploadImages : analysed[img] = 2 => recognized[img] = 1

\* the image tab shows results: a file is in the uploader and validated_data is set
ResultsShown == uploaded_file # NoFile /\ ss_validated_data # NoData

\* C20: the results the image tab shows were produced from the file now in the
\* uploader, whose name image_uploaded records, and order_data is set with them:
\* uploading a different file clears both before any result is shown
C20_ResultsOfCurrentUpload ==
    (ResultsShown /\ ss_validated_data.src \in UploadImages)
        => /\ image_uploaded = uploaded_file.name
           /\ ss_order_data # NoData
           /\ ss_validated_data.src = uploaded_file.image

(***************************************************************************)
(* normalize_item_name called on its own, as the edit handler and the      *)
(* validation call it: one call on a text, with auto-learn on or off.      *)
(***************************************************************************)
\* the texts handed to normalize_item_name
ItemTexts ==
    {<<>>, <<" ">>, NameA, NameB, NameC, NameAB, NameBC, <<" ", "a", "b", " ">>,
     <<"a", "b", "c">>}

NormalizeTables ==
    AliasTables \cup {<<[n |-> NameAB, v |-> {NameAB}], [n |-> NameA, v |-> {NameA}]>>}

\* one call of normalize_item_name(item_name, auto_learn)
normalize_item_name_call ==
    /\ ~normalized.called
    /\ \E out \in normalize_item_name(item_text, auto_learn, items) :
         /\ normalized' = [called |-> TRUE, name |-> out.name,
                           learned |-> out.items # items]
         /\ items' = out.items
    /\ UNCHANGED <<order_data, auto_learn, stores, vpc, idx, validated_data, errors,
                   pass, first, item_text, recVars, sesVars>>

InitNormalize ==
    /\ item_text \in ItemTexts
    /\ normalized = NotCalled
    /\ auto_learn \in BOOLEAN
    /\ items \in NormalizeTables
    /\ stores = <<>>
    /\ order_data = <<>>
    /\ vpc = "idle"
    /\ idx = 0
    /\ validated_data = <<>>
    /\ errors = <<>>
    /\ pass = 1
    /\ first = [data |-> <<>>, items |-> <<>>, stores |-> <<>>, auto_learn |-> TRUE]
    /\ max_retries = DefaultMaxRetries
    /\ use_ocr = TRUE
    /\ ocr = [ok |-> FALSE, len |-> 0, lines |-> 0, conf |-> 0]
    /\ stub = [r \in Recognizers |-> [fails |-> 0, response |-> RespArray1]]
    /\ pc = "idle"
    /\ attempt = 0
    /\ calls = [r \in Recognizers |-> 0]
    /\ rstate = [r \in Recognizers |-> "idle"]
    /\ rresult = [r \in Recognizers |-> DataNone]
    /\ last_error = [r \in Recognizers |-> "none"]
    /\ result = DataNone
    /\ SesIdle

NextNormalize == normalize_item_name_call

SpecNormalize == InitNormalize /\ [][NextNormalize]_vars

(***************************************************************************)
(* Claims about normalize_item_name (SpecNormalize).                       *)
(***************************************************************************)
\* the canonical names of the entries that list the text as a variant
ListedUnder(text) == {items[k].n : k \in {j \in 1..Len(items) : text \in items[j].v}}

\* C15: a text that is exactly a listed variant of canonical name C normalizes to C
\* without auto-learn: the exact match comes first, so that another entry one of whose
\* variants is a substring of the text does not win
C15_ExactMatchFirst ==
    (normalized.called /\ auto_learn /\ ~normalized.learned
        /\ ListedUnder(Strip(item_text)) # {})
        => normalized.name \in ListedUnder(Strip(item_text))

\* C16: for every non-empty text, also one of white space only, and every alias table
\* normalize_item_name returns a non-empty canonical name (here: auto-learn disabled)
C16_NonEmptyResult ==
    (normalized.called /\ ~auto_learn /\ item_text # <<>>)
        => normalized.name # <<>>

====
